---- MODULE Spec2Model ----
(***************************************************************************)
(* Model of the get_checked crate: non-panicking, bounds-checked access to *)
(* slices (src/src/lib.rs).  One call of get_checked / get_checked_mut is  *)
(* one action; the index shapes are the seven types that implement         *)
(* GetCheckedSlice<[T]>.  usize is modelled with UsizeBits bits, so that   *)
(* usize::MAX is reachable by the inputs and checked_add(1) can overflow.  *)
(* Range values are the values the range syntax builds (a..b, a..=b, ...); *)
(* a RangeInclusive that an iterator has already consumed is not an input  *)
(* of the model.                                                           *)
(***************************************************************************)
EXTENDS Integers, Sequences, FiniteSets, TLC

\* ------------------------------------------------------------------ bounds
UsizeBits == 3
MaxLen    == 3
NumElems  == 2

UsizeMax == 2^UsizeBits - 1
Usize    == 0..UsizeMax
Elems    == 0..(NumElems - 1)

\* every slice of at most MaxLen elements
Slices == UNION {[1..n -> Elems] : n \in 0..MaxLen}

\* ------------------------------------------------------------------ values
\* the index argument: one of the seven shapes, with the fields it carries
\* (a field the shape does not have is 0)
Index(shape, start, end) == [shape |-> shape, start |-> start, end |-> end]

\* Error values, under the names lib.rs constructs them with.  The variants
\* without operands carry 0, 0.
MkError(kind, a, b) == [kind |-> kind, a |-> a, b |-> b]
NoError == MkError("None", 0, 0)

IndexError(a, b)              == MkError("IndexError", a, b)
SliceIndexOrderError(a, b)    == MkError("SliceIndexOrderError", a, b)
SliceStartIndexLenError(a, b) == MkError("SliceStartIndexLenError", a, b)
SliceEndIndexLenError(a, b)   == MkError("SliceEndIndexLenError", a, b)
StartIndexOverflowError       == MkError("StartIndexOverflowError", 0, 0)
EndIndexOverflowError         == MkError("EndIndexOverflowError", 0, 0)

\* Result<&Output, Error>.  A view is the borrowed sub-run of the slice that
\* starts at 0-based position off and has len elements (a &T is a view of one
\* element).  "UB" marks a call of the unchecked primitive outside its
\* contract; the actions turn it into the outcomes a build can produce.
Ok(off, len) == [tag |-> "Ok", off |-> off, len |-> len, err |-> NoError]
Err(e)       == [tag |-> "Err", off |-> 0, len |-> 0, err |-> e]
UB(off, len) == [tag |-> "UB", off |-> off, len |-> len, err |-> NoError]
Abort        == [tag |-> "Abort", off |-> 0, len |-> 0, err |-> NoError]

\* Result<usize, Error> of a bound conversion
OkVal(v)  == [ok |-> TRUE, v |-> v, err |-> NoError]
ErrVal(e) == [ok |-> FALSE, v |-> 0, err |-> e]

\* usize::checked_add: None when the sum does not fit in a usize
Some(v) == [some |-> TRUE, v |-> v]
None    == [some |-> FALSE, v |-> 0]
checked_add_wrapping(x, y) == Some((x + y) % (UsizeMax + 1))
checked_add(x, y) == IF x + y > UsizeMax THEN None ELSE Some(x + y)

\* Option::ok_or
ok_or(opt, e) == IF opt.some THEN OkVal(opt.v) ELSE ErrVal(e)

\* RangeBounds::start_bound / end_bound of the range types
Included(x) == [b |-> "Included", x |-> x]
Excluded(x) == [b |-> "Excluded", x |-> x]
Unbounded   == [b |-> "Unbounded", x |-> 0]

start_bound(self) ==
    CASE self.shape = "RangeFrom"      -> Included(self.start)
      [] self.shape = "RangeInclusive" -> Included(self.start)
      [] self.shape = "Range"          -> Included(self.start)
      [] OTHER                         -> Unbounded

end_bound(self) ==
    CASE self.shape = "RangeTo"          -> Excluded(self.end)
      [] self.shape = "Range"            -> Excluded(self.end)
      [] self.shape = "RangeInclusive"   -> Included(self.end)
      [] self.shape = "RangeToInclusive" -> Included(self.end)
      [] OTHER                           -> Unbounded

\* slice.len()
len(slice) == Len(slice)

\* ------------------------------------------------- the unchecked primitive
\* slice.get_unchecked(index) / get_unchecked_mut(index): the sub-run the
\* index denotes, with no check.  The range it is called with, as 0-based
\* [s, e); arithmetic is the wrapping machine arithmetic.
unchecked_range(self, n) ==
    CASE self.shape = "usize"     -> <<self.start, (self.start + 1) % (UsizeMax + 1)>>
      [] self.shape = "Range"     -> <<self.start, self.end>>
      [] self.shape = "RangeTo"   -> <<0, self.end>>
      [] self.shape = "RangeFrom" -> <<self.start, n>>
      [] self.shape = "RangeFull" -> <<0, n>>
      [] OTHER                    -> <<self.start, (self.end + 1) % (UsizeMax + 1)>>

\* the primitive's contract: the range is ordered and inside the slice
unchecked_in_bounds(self, n) ==
    LET r == unchecked_range(self, n)
    IN  /\ r[1] <= r[2]
        /\ r[2] <= n
        /\ self.shape = "usize" => self.start < n
        /\ self.shape \in {"RangeInclusive", "RangeToInclusive"} => self.end < UsizeMax

get_unchecked(slice, self) ==
    LET r == unchecked_range(self, len(slice))
        l == (r[2] - r[1]) % (UsizeMax + 1)
    IN  IF unchecked_in_bounds(self, len(slice)) THEN Ok(r[1], l) ELSE UB(r[1], l)

get_unchecked_mut(slice, self) ==
    LET r == unchecked_range(self, len(slice))
        l == (r[2] - r[1]) % (UsizeMax + 1)
    IN  IF unchecked_in_bounds(self, len(slice)) THEN Ok(r[1], l) ELSE UB(r[1], l)

\* ------------------------------------------------ impl ... for usize
usize_get_checked_off_by_one(self, slice) ==
    IF self.start <= len(slice)
    THEN get_unchecked(slice, self)
    ELSE Err(IndexError(self.start, len(slice)))

usize_get_checked(self, slice) ==
    IF self.start < len(slice)
    THEN get_unchecked(slice, self)
    ELSE Err(IndexError(self.start, len(slice)))

usize_get_checked_mut_off_by_one(self, slice) ==
    IF self.start <= len(slice)
    THEN get_unchecked_mut(slice, self)
    ELSE Err(IndexError(self.start, len(slice)))

usize_get_checked_mut(self, slice) ==
    IF self.start < len(slice)
    THEN get_unchecked_mut(slice, self)
    ELSE Err(IndexError(self.start, len(slice)))

\* ------------------------------------------------ impl ... for ops::Range
Range_get_checked_no_order(self, slice) ==
    LET len_ == len(slice)
    IN  IF self.end > len_
        THEN Err(SliceEndIndexLenError(self.end, len_))
        ELSE get_unchecked(slice, self)

Range_get_checked_start_check(self, slice) ==
    LET len_ == len(slice)
    IN  IF self.start > self.end
        THEN Err(SliceIndexOrderError(self.start, self.end))
        ELSE IF self.start > len_
        THEN Err(SliceStartIndexLenError(self.start, len_))
        ELSE IF self.end > len_
        THEN Err(SliceEndIndexLenError(self.end, len_))
        ELSE get_unchecked(slice, self)

Range_get_checked(self, slice) ==
    LET len_ == len(slice)
    IN  IF self.start > self.end
        THEN Err(SliceIndexOrderError(self.start, self.end))
        ELSE IF self.end > len_
        THEN Err(SliceEndIndexLenError(self.end, len_))
        ELSE get_unchecked(slice, self)

Range_get_checked_mut_len_first(self, slice) ==
    LET len_ == len(slice)
    IN  IF self.end > len_
        THEN Err(SliceEndIndexLenError(self.end, len_))
        ELSE IF self.start > self.end
        THEN Err(SliceIndexOrderError(self.start, self.end))
        ELSE get_unchecked_mut(slice, self)

Range_get_checked_mut(self, slice) ==
    LET len_ == len(slice)
    IN  IF self.start > self.end
        THEN Err(SliceIndexOrderError(self.start, self.end))
        ELSE IF self.end > len_
        THEN Err(SliceEndIndexLenError(self.end, len_))
        ELSE get_unchecked_mut(slice, self)

\* ------------------------------------------------ impl ... for ops::RangeTo
RangeTo_get_checked_ge(self, slice) ==
    LET eb   == end_bound(self)
        endR == CASE eb.b = "Included" -> ok_or(checked_add(eb.x, 1), EndIndexOverflowError)
                  [] eb.b = "Excluded" -> OkVal(eb.x)
                  [] OTHER             -> OkVal(len(slice))
    IN  IF ~endR.ok THEN Err(endR.err)
        ELSE LET end  == endR.v
                 len_ == len(slice)
             IN  IF end >= len_
                 THEN Err(SliceEndIndexLenError(end, len_))
                 ELSE get_unchecked(slice, self)

RangeTo_get_checked(self, slice) ==
    LET eb   == end_bound(self)
        endR == CASE eb.b = "Included" -> ok_or(checked_add(eb.x, 1), EndIndexOverflowError)
                  [] eb.b = "Excluded" -> OkVal(eb.x)
                  [] OTHER             -> OkVal(len(slice))
    IN  IF ~endR.ok THEN Err(endR.err)
        ELSE LET end  == endR.v
                 len_ == len(slice)
             IN  IF end > len_
                 THEN Err(SliceEndIndexLenError(end, len_))
                 ELSE get_unchecked(slice, self)

RangeTo_get_checked_mut_whole(self, slice) ==
    LET eb   == end_bound(self)
        endR == CASE eb.b = "Included" -> ok_or(checked_add(eb.x, 1), EndIndexOverflowError)
                  [] eb.b = "Excluded" -> OkVal(eb.x)
                  [] OTHER             -> OkVal(len(slice))
    IN  IF ~endR.ok THEN Err(endR.err)
        ELSE LET end  == endR.v
                 len_ == len(slice)
             IN  IF end > len_
                 THEN Err(SliceEndIndexLenError(end, len_))
                 ELSE Ok(0, len(slice))

RangeTo_get_checked_mut(self, slice) ==
    LET eb   == end_bound(self)
        endR == CASE eb.b = "Included" -> ok_or(checked_add(eb.x, 1), EndIndexOverflowError)
                  [] eb.b = "Excluded" -> OkVal(eb.x)
                  [] OTHER             -> OkVal(len(slice))
    IN  IF ~endR.ok THEN Err(endR.err)
        ELSE LET end  == endR.v
                 len_ == len(slice)
             IN  IF end > len_
                 THEN Err(SliceEndIndexLenError(end, len_))
                 ELSE get_unchecked_mut(slice, self)

\* ---------------------------------------------- impl ... for ops::RangeFrom
RangeFrom_get_checked_ge(self, slice) ==
    LET sb     == start_bound(self)
        startR == CASE sb.b = "Included" -> OkVal(sb.x)
                    [] sb.b = "Excluded" -> ok_or(checked_add(sb.x, 1), StartIndexOverflowError)
                    [] OTHER             -> OkVal(0)
    IN  IF ~startR.ok THEN Err(startR.err)
        ELSE LET start == startR.v
                 len_  == len(slice)
             IN  IF start >= len_
                 THEN Err(SliceStartIndexLenError(start, len_))
                 ELSE get_unchecked(slice, self)

RangeFrom_get_checked_start_plus_one(self, slice) ==
    LET sb     == start_bound(self)
        startR == CASE sb.b = "Included" -> ok_or(checked_add(sb.x, 1), StartIndexOverflowError)
                    [] sb.b = "Excluded" -> ok_or(checked_add(sb.x, 1), StartIndexOverflowError)
                    [] OTHER             -> OkVal(0)
    IN  IF ~startR.ok THEN Err(startR.err)
        ELSE LET start == startR.v
                 len_  == len(slice)
             IN  IF start > len_
                 THEN Err(SliceStartIndexLenError(start, len_))
                 ELSE get_unchecked(slice, self)

RangeFrom_get_checked(self, slice) ==
    LET sb     == start_bound(self)
        startR == CASE sb.b = "Included" -> OkVal(sb.x)
                    [] sb.b = "Excluded" -> ok_or(checked_add(sb.x, 1), StartIndexOverflowError)
                    [] OTHER             -> OkVal(0)
    IN  IF ~startR.ok THEN Err(startR.err)
        ELSE LET start == startR.v
                 len_  == len(slice)
             IN  IF start > len_
                 THEN Err(SliceStartIndexLenError(start, len_))
                 ELSE get_unchecked(slice, self)

RangeFrom_get_checked_mut_unchecked(self, slice) ==
    get_unchecked_mut(slice, self)

RangeFrom_get_checked_mut(self, slice) ==
    LET sb     == start_bound(self)
        startR == CASE sb.b = "Included" -> OkVal(sb.x)
                    [] sb.b = "Excluded" -> ok_or(checked_add(sb.x, 1), StartIndexOverflowError)
                    [] OTHER             -> OkVal(0)
    IN  IF ~startR.ok THEN Err(startR.err)
        ELSE LET start == startR.v
                 len_  == len(slice)
             IN  IF start > len_
                 THEN Err(SliceStartIndexLenError(start, len_))
                 ELSE get_unchecked_mut(slice, self)

\* ---------------------------------------------- impl ... for ops::RangeFull
\* Ok(slice): the whole slice, the unchecked primitive is not involved
RangeFull_get_checked_nonempty(self, slice) ==
    IF 0 < len(slice) THEN Ok(0, len(slice)) ELSE Err(IndexError(0, len(slice)))

RangeFull_get_checked(self, slice) == Ok(0, len(slice))

RangeFull_get_checked_mut(self, slice) == Ok(0, len(slice))

\* ----------------------------------------- impl ... for ops::RangeInclusive
RangeInclusive_get_checked_short_view(self, slice) ==
    LET sb     == start_bound(self)
        startR == CASE sb.b = "Included" -> OkVal(sb.x)
                    [] sb.b = "Excluded" -> ok_or(checked_add(sb.x, 1), StartIndexOverflowError)
                    [] OTHER             -> OkVal(0)
    IN  IF ~startR.ok THEN Err(startR.err)
        ELSE
        LET eb   == end_bound(self)
            endR == CASE eb.b = "Included" -> ok_or(checked_add(eb.x, 1), EndIndexOverflowError)
                      [] eb.b = "Excluded" -> OkVal(eb.x)
                      [] OTHER             -> OkVal(len(slice))
        IN  IF ~endR.ok THEN Err(endR.err)
            ELSE LET start == startR.v
                     end   == endR.v
                     len_  == len(slice)
                 IN  IF start > end
                     THEN Err(SliceIndexOrderError(start, end))
                     ELSE IF end > len_
                     THEN Err(SliceEndIndexLenError(end, len_))
                     ELSE get_unchecked(slice, Index("Range", self.start, self.end))

RangeInclusive_get_checked_raw_end(self, slice) ==
    LET sb     == start_bound(self)
        startR == CASE sb.b = "Included" -> OkVal(sb.x)
                    [] sb.b = "Excluded" -> ok_or(checked_add(sb.x, 1), StartIndexOverflowError)
                    [] OTHER             -> OkVal(0)
    IN  IF ~startR.ok THEN Err(startR.err)
        ELSE
        LET eb   == end_bound(self)
            endR == CASE eb.b = "Included" -> OkVal(eb.x)
                      [] eb.b = "Excluded" -> OkVal(eb.x)
                      [] OTHER             -> OkVal(len(slice))
        IN  IF ~endR.ok THEN Err(endR.err)
            ELSE LET start == startR.v
                     end   == endR.v
                     len_  == len(slice)
                 IN  IF start > end
                     THEN Err(SliceIndexOrderError(start, end))
                     ELSE IF end > len_
                     THEN Err(SliceEndIndexLenError(end, len_))
                     ELSE get_unchecked(slice, self)

RangeInclusive_get_checked_len_first(self, slice) ==
    LET sb     == start_bound(self)
        startR == CASE sb.b = "Included" -> OkVal(sb.x)
                    [] sb.b = "Excluded" -> ok_or(checked_add(sb.x, 1), StartIndexOverflowError)
                    [] OTHER             -> OkVal(0)
    IN  IF ~startR.ok THEN Err(startR.err)
        ELSE
        LET eb   == end_bound(self)
            endR == CASE eb.b = "Included" -> ok_or(checked_add(eb.x, 1), EndIndexOverflowError)
                      [] eb.b = "Excluded" -> OkVal(eb.x)
                      [] OTHER             -> OkVal(len(slice))
        IN  IF ~endR.ok THEN Err(endR.err)
            ELSE LET start == startR.v
                     end   == endR.v
                     len_  == len(slice)
                 IN  IF end > len_
                     THEN Err(SliceEndIndexLenError(end, len_))
                     ELSE IF start > end
                     THEN Err(SliceIndexOrderError(start, end))
                     ELSE get_unchecked(slice, self)

RangeInclusive_get_checked_order_inclusive(self, slice) ==
    LET sb     == start_bound(self)
        startR == CASE sb.b = "Included" -> OkVal(sb.x)
                    [] sb.b = "Excluded" -> ok_or(checked_add(sb.x, 1), StartIndexOverflowError)
                    [] OTHER             -> OkVal(0)
    IN  IF ~startR.ok THEN Err(startR.err)
        ELSE
        LET eb   == end_bound(self)
            endR == CASE eb.b = "Included" -> ok_or(checked_add(eb.x, 1), EndIndexOverflowError)
                      [] eb.b = "Excluded" -> OkVal(eb.x)
                      [] OTHER             -> OkVal(len(slice))
        IN  IF ~endR.ok THEN Err(endR.err)
            ELSE LET start == startR.v
                     end   == endR.v
                     len_  == len(slice)
                 IN  IF start > self.end
                     THEN Err(SliceIndexOrderError(start, end))
                     ELSE IF end > len_
                     THEN Err(SliceEndIndexLenError(end, len_))
                     ELSE get_unchecked(slice, self)

RangeInclusive_get_checked(self, slice) ==
    LET sb     == start_bound(self)
        startR == CASE sb.b = "Included" -> OkVal(sb.x)
                    [] sb.b = "Excluded" -> ok_or(checked_add(sb.x, 1), StartIndexOverflowError)
                    [] OTHER             -> OkVal(0)
    IN  IF ~startR.ok THEN Err(startR.err)
        ELSE
        LET eb   == end_bound(self)
            endR == CASE eb.b = "Included" -> ok_or(checked_add(eb.x, 1), EndIndexOverflowError)
                      [] eb.b = "Excluded" -> OkVal(eb.x)
                      [] OTHER             -> OkVal(len(slice))
        IN  IF ~endR.ok THEN Err(endR.err)
            ELSE LET start == startR.v
                     end   == endR.v
                     len_  == len(slice)
                 IN  IF start > end
                     THEN Err(SliceIndexOrderError(start, end))
                     ELSE IF end > len_
                     THEN Err(SliceEndIndexLenError(end, len_))
                     ELSE get_unchecked(slice, self)

RangeInclusive_get_checked_mut(self, slice) ==
    LET sb     == start_bound(self)
        startR == CASE sb.b = "Included" -> OkVal(sb.x)
                    [] sb.b = "Excluded" -> ok_or(checked_add(sb.x, 1), StartIndexOverflowError)
                    [] OTHER             -> OkVal(0)
    IN  IF ~startR.ok THEN Err(startR.err)
        ELSE
        LET eb   == end_bound(self)
            endR == CASE eb.b = "Included" -> ok_or(checked_add(eb.x, 1), EndIndexOverflowError)
                      [] eb.b = "Excluded" -> OkVal(eb.x)
                      [] OTHER             -> OkVal(len(slice))
        IN  IF ~endR.ok THEN Err(endR.err)
            ELSE LET start == startR.v
                     end   == endR.v
                     len_  == len(slice)
                 IN  IF start > end
                     THEN Err(SliceIndexOrderError(start, end))
                     ELSE IF end > len_
                     THEN Err(SliceEndIndexLenError(end, len_))
                     ELSE get_unchecked_mut(slice, self)

\* --------------------------------------- impl ... for ops::RangeToInclusive
\* (0..=self.end).get_checked(slice)
RangeToInclusive_get_checked_exclusive(self, slice) ==
    Range_get_checked(Index("Range", 0, self.end), slice)

RangeToInclusive_get_checked(self, slice) ==
    RangeInclusive_get_checked(Index("RangeInclusive", 0, self.end), slice)

RangeToInclusive_get_checked_mut(self, slice) ==
    RangeInclusive_get_checked_mut(Index("RangeInclusive", 0, self.end), slice)

\* ------------------------------------------------ trait GetChecked for [T]
\* index.get_checked(self): the impl of the index's type
get_checked(slice, index) ==
    CASE index.shape = "usize"            -> usize_get_checked(index, slice)
      [] index.shape = "Range"            -> Range_get_checked(index, slice)
      [] index.shape = "RangeTo"          -> RangeTo_get_checked(index, slice)
      [] index.shape = "RangeFrom"        -> RangeFrom_get_checked(index, slice)
      [] index.shape = "RangeFull"        -> RangeFull_get_checked(index, slice)
      [] index.shape = "RangeInclusive"   -> RangeInclusive_get_checked(index, slice)
      [] index.shape = "RangeToInclusive" -> RangeToInclusive_get_checked(index, slice)

get_checked_mut(slice, index) ==
    CASE index.shape = "usize"            -> usize_get_checked_mut(index, slice)
      [] index.shape = "Range"            -> Range_get_checked_mut(index, slice)
      [] index.shape = "RangeTo"          -> RangeTo_get_checked_mut(index, slice)
      [] index.shape = "RangeFrom"        -> RangeFrom_get_checked_mut(index, slice)
      [] index.shape = "RangeFull"        -> RangeFull_get_checked_mut(index, slice)
      [] index.shape = "RangeInclusive"   -> RangeInclusive_get_checked_mut(index, slice)
      [] index.shape = "RangeToInclusive" -> RangeToInclusive_get_checked_mut(index, slice)

\* ------------------------------------------------- error model (error.rs)
\* IndexErrorKind, the kinds error.rs renders
Bounds(a, b)     == MkError("Bounds", a, b)
Order(a, b)      == MkError("Order", a, b)
StartRange(a, b) == MkError("StartRange", a, b)
EndRange(a, b)   == MkError("EndRange", a, b)
StartOverflow    == MkError("StartOverflow", 0, 0)
EndOverflow      == MkError("EndOverflow", 0, 0)

\* the kind an error value built by lib.rs carries, operands in the order
\* they were given
kind_of(e) ==
    CASE e.kind = "IndexError"              -> Bounds(e.a, e.b)
      [] e.kind = "SliceIndexOrderError"    -> Order(e.a, e.b)
      [] e.kind = "SliceStartIndexLenError" -> StartRange(e.a, e.b)
      [] e.kind = "SliceEndIndexLenError"   -> EndRange(e.a, e.b)
      [] e.kind = "StartIndexOverflowError" -> StartOverflow
      [] e.kind = "EndIndexOverflowError"   -> EndOverflow
      [] OTHER                              -> e

\* "{}" of a usize: its decimal digits
display(n) == ToString(n)

\* IndexError::fmt: the text written, as its literal pieces and the
\* interpolated operands, {0} being a and {1} being b
fmt_end_as_start(self) ==
    LET a == self.a
        b == self.b
    IN  CASE self.kind = "Bounds" ->
               <<"index out of bounds: the len is ", display(a), " but the index is ", display(b)>>
          [] self.kind = "Order" ->
               <<"slice index starts at ", display(a), " but ends at ", display(b)>>
          [] self.kind = "StartRange" ->
               <<"range start index ", display(a), " out of range for slice of length ", display(b)>>
          [] self.kind = "StartOverflow" ->
               <<"attempted to index slice from after maximum usize">>
          [] self.kind = "EndRange" ->
               <<"range start index ", display(a), " out of range for slice of length ", display(b)>>
          [] self.kind = "EndOverflow" ->
               <<"attempted to index slice up to maximum usize">>
          [] OTHER -> << >>

fmt(self) ==
    LET a == self.a
        b == self.b
    IN  CASE self.kind = "Bounds" ->
               <<"index out of bounds: the len is ", display(a), " but the index is ", display(b)>>
          [] self.kind = "Order" ->
               <<"slice index starts at ", display(a), " but ends at ", display(b)>>
          [] self.kind = "StartRange" ->
               <<"range start index ", display(a), " out of range for slice of length ", display(b)>>
          [] self.kind = "StartOverflow" ->
               <<"attempted to index slice from after maximum usize">>
          [] self.kind = "EndRange" ->
               <<"range end index ", display(a), " out of range for slice of length ", display(b)>>
          [] self.kind = "EndOverflow" ->
               <<"attempted to index slice up to maximum usize">>
          [] OTHER -> << >>

\* every error value lib.rs can name
Errors ==
    {IndexError(a, b) : a \in Usize, b \in Usize}
        \cup {SliceIndexOrderError(a, b) : a \in Usize, b \in Usize}
        \cup {SliceStartIndexLenError(a, b) : a \in Usize, b \in Usize}
        \cup {SliceEndIndexLenError(a, b) : a \in Usize, b \in Usize}
        \cup {StartIndexOverflowError, EndIndexOverflowError}

\* ------------------------------------------------------------------- state
VARIABLES
    slice,      \* the sequence the caller owns
    call,       \* the last call: its index argument and whether it was _mut
    result,     \* what the last call returned
    unchecked,  \* whether the last call reached the unchecked primitive
    written,    \* 0-based position of the last store through the &mut view, or -1
    shown       \* the last error rendered with to_string() and its text

vars == <<slice, call, result, unchecked, written, shown>>

NoCall == [index |-> Index("None", 0, 0), mut |-> FALSE]
NoResult == [tag |-> "None", off |-> 0, len |-> 0, err |-> NoError]
NoShown == [err |-> NoError, text |-> << >>]

\* the outcomes a build can produce for the value an impl computes: a call of
\* the unchecked primitive outside its contract either aborts (the debug
\* precondition check) or hands out the view it computed without a check
Outcomes(r) ==
    IF r.tag = "UB" THEN {Abort, Ok(r.off, r.len)} ELSE {r}

ReachedUnchecked(r) == r.tag \in {"Ok", "UB"}

\* no borrow of the slice is outstanding and nothing is being rendered
Idle == call = NoCall /\ shown = NoShown

Call_clobber(index, mut, r) ==
    /\ call = NoCall
    /\ shown = NoShown
    /\ call' = [index |-> index, mut |-> mut]
    /\ result' \in Outcomes(r)
    /\ unchecked' = (index.shape # "RangeFull" /\ ReachedUnchecked(r))
    /\ slice' = IF mut /\ r.tag = "Ok" /\ r.len > 0 /\ r.off < Len(slice)
                THEN [slice EXCEPT ![r.off + 1] = 0]
                ELSE slice
    /\ UNCHANGED <<written, shown>>

Call(index, mut, r) ==
    /\ call = NoCall
    /\ shown = NoShown
    /\ call' = [index |-> index, mut |-> mut]
    /\ result' \in Outcomes(r)
    /\ unchecked' = (index.shape # "RangeFull" /\ ReachedUnchecked(r))
    /\ UNCHANGED <<slice, written, shown>>

Init ==
    /\ slice \in Slices
    /\ call = NoCall
    /\ result = NoResult
    /\ unchecked = FALSE
    /\ written = -1
    /\ shown = NoShown

\* slice.get_checked(i)
GetChecked_usize ==
    /\ Idle
    /\ \E i \in Usize :
        LET index == Index("usize", i, 0)
        IN  Call(index, FALSE, usize_get_checked(index, slice))

GetCheckedMut_usize ==
    /\ Idle
    /\ \E i \in Usize :
        LET index == Index("usize", i, 0)
        IN  Call(index, TRUE, usize_get_checked_mut(index, slice))

GetChecked_Range ==
    /\ Idle
    /\ \E a \in Usize, b \in Usize :
        LET index == Index("Range", a, b)
        IN  Call(index, FALSE, Range_get_checked(index, slice))

GetCheckedMut_Range ==
    /\ Idle
    /\ \E a \in Usize, b \in Usize :
        LET index == Index("Range", a, b)
        IN  Call(index, TRUE, Range_get_checked_mut(index, slice))

GetChecked_RangeTo ==
    /\ Idle
    /\ \E b \in Usize :
        LET index == Index("RangeTo", 0, b)
        IN  Call(index, FALSE, RangeTo_get_checked(index, slice))

GetCheckedMut_RangeTo ==
    /\ Idle
    /\ \E b \in Usize :
        LET index == Index("RangeTo", 0, b)
        IN  Call(index, TRUE, RangeTo_get_checked_mut(index, slice))

GetChecked_RangeFrom ==
    /\ Idle
    /\ \E a \in Usize :
        LET index == Index("RangeFrom", a, 0)
        IN  Call(index, FALSE, RangeFrom_get_checked(index, slice))

GetCheckedMut_RangeFrom ==
    /\ Idle
    /\ \E a \in Usize :
        LET index == Index("RangeFrom", a, 0)
        IN  Call(index, TRUE, RangeFrom_get_checked_mut(index, slice))

GetChecked_RangeFull ==
    LET index == Index("RangeFull", 0, 0)
    IN  Call(index, FALSE, RangeFull_get_checked(index, slice))

GetCheckedMut_RangeFull ==
    LET index == Index("RangeFull", 0, 0)
    IN  Call(index, TRUE, RangeFull_get_checked_mut(index, slice))

GetChecked_RangeInclusive ==
    /\ Idle
    /\ \E a \in Usize, b \in Usize :
        LET index == Index("RangeInclusive", a, b)
        IN  Call(index, FALSE, RangeInclusive_get_checked(index, slice))

GetCheckedMut_RangeInclusive ==
    /\ Idle
    /\ \E a \in Usize, b \in Usize :
        LET index == Index("RangeInclusive", a, b)
        IN  Call(index, TRUE, RangeInclusive_get_checked_mut(index, slice))

GetChecked_RangeToInclusive ==
    /\ Idle
    /\ \E b \in Usize :
        LET index == Index("RangeToInclusive", 0, b)
        IN  Call(index, FALSE, RangeToInclusive_get_checked(index, slice))

GetCheckedMut_RangeToInclusive ==
    /\ Idle
    /\ \E b \in Usize :
        LET index == Index("RangeToInclusive", 0, b)
        IN  Call(index, TRUE, RangeToInclusive_get_checked_mut(index, slice))

\* the caller stores v through the &mut view the last call returned
WriteView ==
    /\ call.mut
    /\ result.tag = "Ok"
    /\ \E k \in 0..(result.len - 1), v \in Elems :
        /\ result.off + k + 1 \in DOMAIN slice
        /\ slice' = [slice EXCEPT ![result.off + k + 1] = v]
        /\ written' = result.off + k
    /\ UNCHANGED <<call, result, unchecked, shown>>

\* err.to_string() on the error the last call returned
ToString_result ==
    /\ result.tag = "Err"
    /\ shown = NoShown
    /\ shown' = [err |-> result.err, text |-> fmt(kind_of(result.err))]
    /\ UNCHANGED <<slice, call, result, unchecked, written>>

\* Error::X(..).to_string() on an error value built in place
ToString_value ==
    /\ call = NoCall
    /\ shown = NoShown
    /\ \E e \in Errors : shown' = [err |-> e, text |-> fmt(kind_of(e))]
    /\ UNCHANGED <<slice, call, result, unchecked, written>>

\* the borrow the last call returned (or its error) goes out of scope
Release ==
    /\ call # NoCall \/ shown # NoShown
    /\ call' = NoCall
    /\ result' = NoResult
    /\ unchecked' = FALSE
    /\ written' = -1
    /\ shown' = NoShown
    /\ UNCHANGED slice

Next ==
    \/ GetChecked_usize
    \/ GetCheckedMut_usize
    \/ GetChecked_Range
    \/ GetCheckedMut_Range
    \/ GetChecked_RangeTo
    \/ GetCheckedMut_RangeTo
    \/ GetChecked_RangeFrom
    \/ GetCheckedMut_RangeFrom
    \/ GetChecked_RangeFull
    \/ GetCheckedMut_RangeFull
    \/ GetChecked_RangeInclusive
    \/ GetCheckedMut_RangeInclusive
    \/ GetChecked_RangeToInclusive
    \/ GetCheckedMut_RangeToInclusive
    \/ WriteView
    \/ ToString_result
    \/ ToString_value
    \/ Release

Spec == Init /\ [][Next]_vars

\* ------------------------------------------------------------- properties
\* what the properties say about the last call
idx    == call.index
called == call # NoCall
read   == called /\ ~call.mut

\* the elements a returned view shows, read through the borrow
InSlice(r)   == r.off + r.len <= Len(slice)
ViewElems(r) == [k \in 1..r.len |-> slice[r.off + k]]

\* native indexing slice[s..e] of an ordered, in-range [s, e)
Native(s, e) == [k \in 1..(e - s) |-> slice[s + k]]

RangeShapes ==
    {"Range", "RangeFrom", "RangeTo", "RangeFull", "RangeInclusive", "RangeToInclusive"}

\* the normalized range [s, e) of a range shape on a slice of n elements; an
\* inclusive end of usize::MAX has no normalized range
HasNorm(i) == i.shape \in {"RangeInclusive", "RangeToInclusive"} => i.end < UsizeMax

NormStart(i) ==
    IF i.shape \in {"Range", "RangeFrom", "RangeInclusive"} THEN i.start ELSE 0

NormEnd(i, n) ==
    CASE i.shape \in {"Range", "RangeTo"}                   -> i.end
      [] i.shape \in {"RangeInclusive", "RangeToInclusive"} -> i.end + 1
      [] OTHER                                              -> n

\* C1: get_checked(i) succeeds with the element stored at position i iff
\* i < len, and returns IndexError(i, len) (the Bounds error: index first,
\* length second) in every other case.
C1_Position ==
    (read /\ idx.shape = "usize") =>
        LET i == idx.start
            n == Len(slice)
        IN  /\ (result.tag = "Ok") <=> (i < n)
            /\ i < n  => /\ result = Ok(i, 1)
                         /\ ViewElems(result) = <<slice[i + 1]>>
            /\ i >= n => result = Err(IndexError(i, n))

C1_Witness ==
    /\ read /\ idx.shape = "usize"
    /\ Len(slice) = 2 /\ idx.start = 3
    /\ result = Err(IndexError(3, 2))

\* C2: get_checked(start..end) succeeds iff start <= end and end <= len, and
\* the view it returns then has exactly end - start elements.
C2_Range ==
    (read /\ idx.shape = "Range") =>
        /\ (result.tag = "Ok") <=> (idx.start <= idx.end /\ idx.end <= Len(slice))
        /\ (result.tag = "Ok") => result.len = idx.end - idx.start

C2_Witness ==
    /\ read /\ idx.shape = "Range"
    /\ idx.start = idx.end /\ idx.end = Len(slice) /\ Len(slice) > 0
    /\ result.tag = "Ok" /\ result.len = 0

\* C3: whenever get_checked succeeds on a range shape, the k-th element of the
\* view is the element at position s + k of the slice, [s, e) being the
\* normalized range: the view is what native indexing gives for the range.
C3_RoundTrip ==
    (read /\ idx.shape \in RangeShapes /\ result.tag = "Ok") =>
        /\ HasNorm(idx)
        /\ NormStart(idx) <= NormEnd(idx, Len(slice))
        /\ NormEnd(idx, Len(slice)) <= Len(slice)
        /\ InSlice(result)
        /\ ViewElems(result) = Native(NormStart(idx), NormEnd(idx, Len(slice)))

C3_Witness ==
    /\ read /\ idx.shape = "RangeToInclusive" /\ result.tag = "Ok"
    /\ idx.end = 1 /\ slice = <<0, 1, 0>>
    /\ ViewElems(result) = <<0, 1>>

\* C4: when a Range or RangeInclusive input has both start > e and e > len
\* (e the normalized, exclusive end), the error is the Order error
\* SliceIndexOrderError(start, e), not the EndRange error.
C4_OrderFirst ==
    (read /\ idx.shape \in {"Range", "RangeInclusive"} /\ HasNorm(idx)) =>
        LET s == NormStart(idx)
            e == NormEnd(idx, Len(slice))
        IN  (s > e /\ e > Len(slice)) => result = Err(SliceIndexOrderError(s, e))

C4_Witness ==
    /\ read /\ idx.shape = "RangeInclusive"
    /\ Len(slice) = 2 /\ idx.start = 5 /\ idx.end = 3
    /\ result = Err(SliceIndexOrderError(5, 4))

\* C5: get_checked(start..=MAX) and get_checked(..=MAX) return the EndOverflow
\* error EndIndexOverflowError for every start and every length: the overflow
\* of end + 1 is found before start or len is compared, and the unchecked
\* primitive never sees a wrapped end.
C5_EndOverflow ==
    (read /\ idx.shape \in {"RangeInclusive", "RangeToInclusive"} /\ idx.end = UsizeMax) =>
        /\ result = Err(EndIndexOverflowError)
        /\ ~unchecked

C5_Witness ==
    /\ read /\ idx.shape = "RangeInclusive"
    /\ idx.start = UsizeMax /\ idx.end = UsizeMax /\ Len(slice) = 1
    /\ result = Err(EndIndexOverflowError)

\* C6: get_checked(start..) succeeds iff start <= len, with the view of the
\* elements [start, len) (len - start of them, none when start = len), and
\* returns the StartRange error SliceStartIndexLenError(start, len) otherwise.
C6_RangeFrom ==
    (read /\ idx.shape = "RangeFrom") =>
        LET s == idx.start
            n == Len(slice)
        IN  /\ (result.tag = "Ok") <=> (s <= n)
            /\ s <= n => /\ result = Ok(s, n - s)
                         /\ ViewElems(result) = Native(s, n)
            /\ s > n  => result = Err(SliceStartIndexLenError(s, n))

C6_Witness ==
    /\ read /\ idx.shape = "RangeFrom"
    /\ Len(slice) = 2 /\ idx.start = 2
    /\ result = Ok(2, 0)

\* C7: get_checked(..end) succeeds iff end <= len, with the view of the
\* elements [0, end), and returns the EndRange error
\* SliceEndIndexLenError(end, len) otherwise.
C7_RangeTo ==
    (read /\ idx.shape = "RangeTo") =>
        LET e == idx.end
            n == Len(slice)
        IN  /\ (result.tag = "Ok") <=> (e <= n)
            /\ e <= n => /\ result = Ok(0, e)
                         /\ ViewElems(result) = Native(0, e)
            /\ e > n  => result = Err(SliceEndIndexLenError(e, n))

C7_Witness ==
    /\ read /\ idx.shape = "RangeTo"
    /\ Len(slice) = 2 /\ idx.end = 3
    /\ result = Err(SliceEndIndexLenError(3, 2))

\* C8: get_checked(..) and get_checked_mut(..) succeed on every slice, the
\* empty one included, and the view has the length and the elements of the
\* whole slice.
C8_RangeFull ==
    (called /\ idx.shape = "RangeFull") =>
        /\ result.tag = "Ok"
        /\ result.len = Len(slice)
        /\ InSlice(result)
        /\ ViewElems(result) = slice

C8_Witness ==
    /\ called /\ idx.shape = "RangeFull" /\ ~call.mut
    /\ slice = << >>
    /\ result.tag = "Ok" /\ result.len = 0

\* C9: for start..=x with x < MAX the end is first normalized to e = x + 1;
\* then the Order error SliceIndexOrderError(start, e) if start > e, else the
\* EndRange error SliceEndIndexLenError(e, len) if e > len, else the view of
\* the elements [start, e).  The errors carry the normalized end.
C9_RangeInclusive ==
    (read /\ idx.shape = "RangeInclusive" /\ idx.end < UsizeMax) =>
        LET s == idx.start
            e == idx.end + 1
            n == Len(slice)
        IN  IF s > e THEN result = Err(SliceIndexOrderError(s, e))
            ELSE IF e > n THEN result = Err(SliceEndIndexLenError(e, n))
            ELSE /\ result = Ok(s, idx.end + 1 - s)
                 /\ ViewElems(result) = Native(s, e)

C9_Witness ==
    /\ read /\ idx.shape = "RangeInclusive"
    /\ Len(slice) = 2 /\ idx.start = 3 /\ idx.end = 2
    /\ result = Err(SliceEndIndexLenError(3, 2))

\* C10: get_checked(..=end) returns what get_checked(0..=end) returns on the
\* same slice, view or error with its operands, and get_checked_mut(..=end)
\* what get_checked_mut(0..=end) returns.
C10_RangeToInclusive ==
    (called /\ idx.shape = "RangeToInclusive") =>
        LET zero == Index("RangeInclusive", 0, idx.end)
        IN  IF call.mut
            THEN result \in Outcomes(RangeInclusive_get_checked_mut(zero, slice))
            ELSE result \in Outcomes(RangeInclusive_get_checked(zero, slice))

C10_Witness ==
    /\ read /\ idx.shape = "RangeToInclusive"
    /\ Len(slice) = 2 /\ idx.end = 2
    /\ result = Err(SliceEndIndexLenError(3, 2))

\* C11: on the same index and the same slice get_checked_mut returns what
\* get_checked returns: a view of the same positions on the same inputs, or
\* the same error with the same operands.
C11_MutMirrorsRead ==
    called =>
        IF call.mut
        THEN result \in Outcomes(get_checked(slice, idx))
        ELSE result \in Outcomes(get_checked_mut(slice, idx))

C11_Witness ==
    /\ called /\ call.mut /\ idx.shape = "Range"
    /\ Len(slice) = 2 /\ idx.start = 5 /\ idx.end = 3
    /\ result = Err(SliceIndexOrderError(5, 3))

\* C12: the Bounds error built for index i on a slice of len elements renders
\* as "index out of bounds: the len is <len> but the index is <i>": the length
\* (second operand) after "the len is", the index (first operand) after "the
\* index is", also when i # len.
C12_BoundsText ==
    (called /\ idx.shape = "usize" /\ shown # NoShown) =>
        shown.text = <<"index out of bounds: the len is ", ToString(Len(slice)),
                       " but the index is ", ToString(idx.start)>>

\* C13: the other errors render their operands in declared order --
\* Order(a,b) "slice index starts at a but ends at b", StartRange(a,b) "range
\* start index a out of range for slice of length b", EndRange(a,b) "range end
\* index a out of range for slice of length b", the two overflow errors their
\* fixed text -- and no error of another kind renders the same text.
Texts == [e \in Errors |-> fmt(kind_of(e))]

\* for every text some error renders, the kinds of the errors that render it
KindsRendering ==
    [t \in {Texts[e] : e \in Errors} |-> {e.kind : e \in {x \in Errors : Texts[x] = t}}]

C13_Rendering ==
    (shown # NoShown) =>
        LET e == shown.err
            a == ToString(e.a)
            b == ToString(e.b)
        IN  /\ e.kind = "SliceIndexOrderError" =>
                shown.text = <<"slice index starts at ", a, " but ends at ", b>>
            /\ e.kind = "SliceStartIndexLenError" =>
                shown.text = <<"range start index ", a, " out of range for slice of length ", b>>
            /\ e.kind = "SliceEndIndexLenError" =>
                shown.text = <<"range end index ", a, " out of range for slice of length ", b>>
            /\ e.kind = "StartIndexOverflowError" =>
                shown.text = <<"attempted to index slice from after maximum usize">>
            /\ e.kind = "EndIndexOverflowError" =>
                shown.text = <<"attempted to index slice up to maximum usize">>
            /\ KindsRendering[shown.text] = {e.kind}

C13_Witness ==
    /\ called /\ idx.shape = "RangeTo" /\ Len(slice) = 2 /\ idx.end = 3
    /\ shown.err = SliceEndIndexLenError(3, 2)
    /\ shown.text = <<"range end index ", "3", " out of range for slice of length ", "2">>

\* the positions [s, e) a successful call makes accessible: the one position
\* of a usize index, the normalized range of a range shape
ViewStart(i)  == IF i.shape = "usize" THEN i.start ELSE NormStart(i)
ViewEnd(i, n) == IF i.shape = "usize" THEN i.start + 1 ELSE NormEnd(i, n)

C15_CallKeepsSlice ==
    [][(call = NoCall /\ call' # NoCall) => slice' = slice]_vars

C15_Witness ==
    /\ called /\ call.mut /\ idx.shape = "RangeFrom" /\ idx.start = 1
    /\ result = Ok(1, 2) /\ written = -1
    /\ slice = <<1, 1, 1>>

C17_WriteInsideView ==
    [][(slice' # slice \/ (written' # written /\ written' # -1)) =>
         LET s == ViewStart(idx)
             e == ViewEnd(idx, Len(slice))
         IN  /\ call.mut /\ result.tag = "Ok" /\ HasNorm(idx)
             /\ result.off = s /\ result.len = e - s
             /\ written' >= s /\ written' < e
             /\ Len(slice') = Len(slice)
             /\ \A p \in 1..Len(slice) : p # written' + 1 => slice'[p] = slice[p]]_vars

C17_Witness ==
    /\ called /\ call.mut /\ idx.shape = "RangeInclusive"
    /\ idx.start = 1 /\ idx.end = 1 /\ Len(slice) = 3
    /\ written = 1 /\ slice[2] = 1

\* C18: StartIndexOverflowError (StartOverflow) is never returned: a start of
\* usize::MAX gives SliceStartIndexLenError(MAX, len) for start.. when
\* MAX > len, and one of the EndOverflow, Order, EndRange errors for start..=x.
C18_NoStartOverflow ==
    called =>
        /\ result.err.kind # "StartIndexOverflowError"
        /\ (idx.shape = "RangeFrom" /\ idx.start = UsizeMax /\ UsizeMax > Len(slice)) =>
               result = Err(SliceStartIndexLenError(UsizeMax, Len(slice)))
        /\ (idx.shape = "RangeInclusive" /\ idx.start = UsizeMax /\ UsizeMax > Len(slice)) =>
               /\ result.tag = "Err"
               /\ result.err.kind \in
                      {"EndIndexOverflowError", "SliceIndexOrderError", "SliceEndIndexLenError"}

C18_Witness ==
    /\ read /\ idx.shape = "RangeFrom"
    /\ idx.start = UsizeMax /\ Len(slice) = 2
    /\ result = Err(SliceStartIndexLenError(UsizeMax, 2))

\* C19: the error kinds a shape can return: a position only IndexError; a..b
\* only Order or EndRange (a..a with a > len gives EndRange(a, len)); ..b only
\* EndRange; a.. only StartRange; .. none; a..=b only EndOverflow, Order or
\* EndRange; ..=b only EndOverflow or EndRange.
ErrorKinds(shape) ==
    CASE shape = "usize"            -> {"IndexError"}
      [] shape = "Range"            -> {"SliceIndexOrderError", "SliceEndIndexLenError"}
      [] shape = "RangeTo"          -> {"SliceEndIndexLenError"}
      [] shape = "RangeFrom"        -> {"SliceStartIndexLenError"}
      [] shape = "RangeInclusive"   ->
             {"EndIndexOverflowError", "SliceIndexOrderError", "SliceEndIndexLenError"}
      [] shape = "RangeToInclusive" -> {"EndIndexOverflowError", "SliceEndIndexLenError"}
      [] OTHER                      -> {}

C19_ErrorKindsPerShape ==
    called =>
        /\ result.tag = "Err" => result.err.kind \in ErrorKinds(idx.shape)
        /\ (idx.shape = "Range" /\ idx.start = idx.end /\ idx.start > Len(slice)) =>
               result = Err(SliceEndIndexLenError(idx.end, Len(slice)))

C19_Witness ==
    /\ read /\ idx.shape = "Range"
    /\ idx.start = 3 /\ idx.end = 3 /\ Len(slice) = 2
    /\ result = Err(SliceEndIndexLenError(3, 2))

\* C20: get_checked(start..=x) with start = x + 1 <= len returns the empty
\* view; the Order error is returned only when start > x + 1.
C20_EmptyInclusive ==
    (read /\ idx.shape = "RangeInclusive" /\ idx.end < UsizeMax) =>
        /\ (idx.start = idx.end + 1 /\ idx.end + 1 <= Len(slice)) =>
               result = Ok(idx.start, 0)
        /\ result.err.kind = "SliceIndexOrderError" => idx.start > idx.end + 1

C20_Witness ==
    /\ read /\ idx.shape = "RangeInclusive"
    /\ idx.start = 2 /\ idx.end = 1 /\ Len(slice) = 3
    /\ result = Ok(2, 0)

====
